---- MODULE Spec2Model ----
(***************************************************************************)
(* A model of agentr's OpenAPI client generator (agentr/utils/openapi.py)  *)
(* and of the APIApplication base class its output runs on                 *)
(* (agentr/application.py).                                                *)
(*                                                                         *)
(* Python values are modelled as follows.                                  *)
(*   str     a sequence of one-character strings, so that replace, lower,  *)
(*           strip, split, join and f-string concatenation are computed    *)
(*           character by character as the code computes them;             *)
(*   dict    a function whose DOMAIN is the set of keys present (a record  *)
(*           for string keys): `k in d` is k \in DOMAIN d, and d.get(k, x) *)
(*           is Get(d, k, x);                                              *)
(*   list    a sequence;                                                   *)
(*   an ordered dict whose order matters is a sequence of <<key, value>>.  *)
(* Schema type names, descriptions and runtime argument values are atoms   *)
(* (TLA+ strings): the code never takes them apart.                        *)
(***************************************************************************)
EXTENDS Naturals, Sequences, FiniteSets, TLC

VARIABLES schema, document, stage, idx, methods, tools, warnings, emitted, client,
          instance, call, file, env

vars == <<schema, document, stage, idx, methods, tools, warnings, emitted, client,
          instance, call, file, env>>

---------------------------------------------------------------------------
(* Python str and dict primitives                                          *)

Uppers == <<"A","B","C","D","E","F","G","H","I","J","K","L","M",
            "N","O","P","Q","R","S","T","U","V","W","X","Y","Z">>

Lowers == <<"a","b","c","d","e","f","g","h","i","j","k","l","m",
            "n","o","p","q","r","s","t","u","v","w","x","y","z">>

Digits == <<"0","1","2","3","4","5","6","7","8","9">>

Range(s) == {s[k] : k \in 1..Len(s)}

LowerChar(c) ==
    IF c \in Range(Uppers)
    THEN Lowers[CHOOSE k \in 1..Len(Uppers) : Uppers[k] = c]
    ELSE c

(* str.lower() *)
Lower(s) == [k \in 1..Len(s) |-> LowerChar(s[k])]

(* str.replace(a, b) for one-character a and b *)
Replace(s, a, b) == [k \in 1..Len(s) |-> IF s[k] = a THEN b ELSE s[k]]

RECURSIVE LStrip(_, _)
LStrip(s, c) == IF s # <<>> /\ Head(s) = c THEN LStrip(Tail(s), c) ELSE s

RECURSIVE RStrip(_, _)
RStrip(s, c) ==
    IF s # <<>> /\ s[Len(s)] = c THEN RStrip(SubSeq(s, 1, Len(s) - 1), c) ELSE s

(* str.strip(c) for a one-character c *)
Strip(s, c) == RStrip(LStrip(s, c), c)

(* str.split(c): the pieces between occurrences of c, empty pieces kept *)
RECURSIVE SplitFrom(_, _, _)
SplitFrom(s, c, piece) ==
    IF s = <<>> THEN <<piece>>
    ELSE IF Head(s) = c THEN <<piece>> \o SplitFrom(Tail(s), c, <<>>)
    ELSE SplitFrom(Tail(s), c, Append(piece, Head(s)))

Split(s, c) == SplitFrom(s, c, <<>>)

(* sep.join(parts) *)
RECURSIVE Join(_, _)
Join(parts, sep) ==
    IF parts = <<>> THEN <<>>
    ELSE IF Len(parts) = 1 THEN parts[1]
    ELSE parts[1] \o sep \o Join(Tail(parts), sep)

(* str(n) for a natural number n *)
RECURSIVE Str(_)
Str(n) == IF n < 10 THEN <<Digits[n + 1]>> ELSE Str(n \div 10) \o <<Digits[(n % 10) + 1]>>

(* bool(x) of a str, list or dict: non-empty *)
Truthy(x) == DOMAIN x # {}

(* d.get(k, default) *)
Get(d, k, default) == IF k \in DOMAIN d THEN d[k] ELSE default

(* d[k] = v *)
Put(d, k, v) == [x \in (DOMAIN d) \cup {k} |-> IF x = k THEN v ELSE d[x]]

(* the empty dict {} and the empty str '' *)
EmptyDict == <<>>

EmptyStr == <<>>

(* ordered dict (a sequence of <<key, value>>): keys present and lookup *)
Keys(od) == {od[k][1] : k \in 1..Len(od)}

Lookup(od, key, default) ==
    IF key \in Keys(od)
    THEN od[CHOOSE k \in 1..Len(od) : od[k][1] = key][2]
    ELSE default

---------------------------------------------------------------------------
(* The text the generator handles: HTTP verbs and parameter locations      *)

s_get     == <<"g","e","t">>
s_post    == <<"p","o","s","t">>
s_put     == <<"p","u","t">>
s_delete  == <<"d","e","l","e","t","e">>
s_patch   == <<"p","a","t","c","h">>
s_options == <<"o","p","t","i","o","n","s">>
s_head    == <<"h","e","a","d">>

(* the verbs generate_api_client compiles *)
HttpVerbs == {s_get, s_post, s_put, s_delete, s_patch, s_options, s_head}

in_path   == <<"p","a","t","h">>
in_query  == <<"q","u","e","r","y">>
in_header == <<"h","e","a","d","e","r">>

s_request_body == <<"r","e","q","u","e","s","t","_","b","o","d","y">>

---------------------------------------------------------------------------
(* generate_method_code: the function name                                 *)

(* NamePart that keeps the empty parts of a path with a double slash *)
NamePart_KeepEmpty(part) ==
    IF part # <<>> /\ Head(part) = "{" /\ part[Len(part)] = "}"
    THEN <<<<"b","y","_">> \o Replace(SubSeq(part, 2, Len(part) - 1), "-", "_")>>
    ELSE <<Replace(part, "-", "_")>>

(* one path part's contribution to name_parts (the body of the for loop) *)
NamePart(part) ==
    IF part # <<>> /\ Head(part) = "{" /\ part[Len(part)] = "}"
    THEN <<<<"b","y","_">> \o Replace(SubSeq(part, 2, Len(part) - 1), "-", "_")>>
    ELSE IF Truthy(part) THEN <<Replace(part, "-", "_")>>
    ELSE <<>>

RECURSIVE NameParts(_)
NameParts(path_parts) ==
    IF path_parts = <<>> THEN <<>>
    ELSE NamePart(Head(path_parts)) \o NameParts(Tail(path_parts))

(* SanitizeOperationId with the dot replaced by a hyphen after the hyphens *)
SanitizeOperationId_DotToHyphen(operationId) ==
    Replace(Replace(operationId, "-", "_"), ".", "-")

(* the sanitized operationId *)
SanitizeOperationId(operationId) == Replace(Replace(operationId, ".", "_"), "-", "_")

(* the name synthesized from method and path *)
NameFromPath(path, method) ==
    Lower(Join(<<Lower(method)>> \o NameParts(Split(Strip(path, "/"), "/")), <<"_">>))

FuncName(path, method, operation) ==
    IF "operationId" \in DOMAIN operation
    THEN SanitizeOperationId(operation.operationId)
    ELSE NameFromPath(path, method)

---------------------------------------------------------------------------
(* generate_method_code: argument names                                    *)

(* the while loop that appends a counter to <initial>_<in> *)
RECURSIVE CounterLoop(_, _, _, _, _)
CounterLoop(initial_arg_name, param_in, unique_arg_name, counter, assigned_arg_names) ==
    IF unique_arg_name \in assigned_arg_names
    THEN CounterLoop(initial_arg_name, param_in,
                     initial_arg_name \o <<"_">> \o param_in \o Str(counter),
                     counter + 1, assigned_arg_names)
    ELSE unique_arg_name

(* UniqueArgName without the counter loop: the location is appended once *)
UniqueArgName_NoCounter(param_name, param_in, assigned_arg_names) ==
    LET initial_arg_name == Replace(param_name, "-", "_")
    IN  IF initial_arg_name \in assigned_arg_names
        THEN initial_arg_name \o <<"_">> \o param_in
        ELSE initial_arg_name

(* steps 1 and 2 of the parameter loop: the unique argument name *)
UniqueArgName(param_name, param_in, assigned_arg_names) ==
    LET initial_arg_name == Replace(param_name, "-", "_")
    IN  IF initial_arg_name \in assigned_arg_names
        THEN CounterLoop(initial_arg_name, param_in,
                         initial_arg_name \o <<"_">> \o param_in, 2, assigned_arg_names)
        ELSE initial_arg_name

(* openapi_type_to_python *)
openapi_type_to_python(openapi_type) ==
    CASE openapi_type = "string"  -> "str"
      [] openapi_type = "integer" -> "int"
      [] openapi_type = "number"  -> "float"
      [] openapi_type = "boolean" -> "bool"
      [] openapi_type = "array"   -> "List"
      [] openapi_type = "object"  -> "Dict[str, Any]"
      [] OTHER                    -> "Any"

(* whether the parameter is compiled as required *)
IsRequired(param) == Get(param, "required", FALSE)

(* step 3 of the parameter loop: the stored definition *)
ParamDef(param, unique_arg_name) ==
    [name        |-> param.name,
     arg_name    |-> unique_arg_name,
     in          |-> param["in"],
     required    |-> IsRequired(param),
     description |-> Get(param, "description", ""),
     schema      |-> Get(param, "schema", EmptyDict),
     py_type     |-> openapi_type_to_python(Get(Get(param, "schema", EmptyDict), "type", "Any"))]

(* a parameter the loop skips: no name or no location *)
SkippedParam(param) ==
    \/ ~Truthy(Get(param, "name", EmptyStr))
    \/ ~Truthy(Get(param, "in", EmptyStr))

(* the warnings the parameter loop prints: one for each parameter skipped *)
ParamWarnings(func_name, parameters) ==
    LET skipped == SelectSeq(parameters, SkippedParam)
    IN  [k \in 1..Len(skipped) |->
            [kind |-> "parameter", func_name |-> func_name, param |-> skipped[k]]]

(* the parameter loop: final_param_defs, built left to right *)
RECURSIVE ParamLoop(_, _)
ParamLoop(parameters, final_param_defs) ==
    IF parameters = <<>> THEN final_param_defs
    ELSE LET param == Head(parameters)
             assigned_arg_names == {final_param_defs[k].arg_name : k \in 1..Len(final_param_defs)}
         IN  IF SkippedParam(param)
             THEN ParamLoop(Tail(parameters), final_param_defs)
             ELSE ParamLoop(Tail(parameters),
                            Append(final_param_defs,
                                   ParamDef(param,
                                            UniqueArgName(param.name, param["in"],
                                                          assigned_arg_names))))

(* the while loop that prefixes the body argument name with underscores *)
RECURSIVE BodyArgName(_, _)
BodyArgName(body_arg_name, assigned_arg_names) ==
    IF body_arg_name \in assigned_arg_names
    THEN BodyArgName(<<"_">> \o body_arg_name, assigned_arg_names)
    ELSE body_arg_name

(* one entry of the signature's argument list: `name: type` when required, *)
(* `name: Optional[type] = None` otherwise                                *)
SignatureArg(arg_name, py_type, required) ==
    [arg_name |-> arg_name, py_type |-> py_type, has_default |-> ~required]

---------------------------------------------------------------------------
(* generate_method_code: the request body                                  *)

(* operation.get('requestBody'); None is read for its truth value only,   *)
(* which is that of the empty dict                                        *)
RequestBodyInfo(operation) == Get(operation, "requestBody", EmptyDict)

HasBody(operation) == Truthy(RequestBodyInfo(operation))

BodyRequired(operation) ==
    HasBody(operation) /\ Get(RequestBodyInfo(operation), "required", FALSE)

(* content is an ordered dict: media type -> media type object *)
BodyContent(operation) ==
    IF HasBody(operation) THEN Get(RequestBodyInfo(operation), "content", <<>>) ELSE <<>>

(* the type hint of the body argument, from content['application/json'] *)
BodyArgType(operation) ==
    LET json_schema == Get(Lookup(BodyContent(operation), "application/json", EmptyDict),
                           "schema", EmptyDict)
        schema_type == Get(json_schema, "type", "")
        items_schema == Get(json_schema, "items", EmptyDict)
        py_item_type == openapi_type_to_python(Get(items_schema, "type", "Any"))
    IN  IF ~Truthy(json_schema) THEN "Dict[str, Any]"
        ELSE CASE schema_type = "array" ->
                    "List[" \o (IF py_item_type \in {"Dict[str, Any]", "Any"} /\ Truthy(items_schema)
                                THEN "Dict[str, Any]"
                                ELSE IF py_item_type = "List" THEN "Any"
                                ELSE py_item_type) \o "]"
               [] schema_type = "object" -> "Dict[str, Any]"
               [] schema_type \notin {"array", "object", ""} -> openapi_type_to_python(schema_type)
               [] OTHER -> "Dict[str, Any]"

---------------------------------------------------------------------------
(* generate_method_code: the emitted method                                *)

(* <<wire name, argument name>> of the definitions declared in one location *)
ItemsIn(final_param_defs, location) ==
    LET InLoc(p) == p["in"] = location
        sel == SelectSeq(final_param_defs, InLoc)
    IN  [k \in 1..Len(sel) |-> <<sel[k].name, sel[k].arg_name>>]

(* the `if <arg> is None: raise ValueError(...)` statements, in order *)
ValidationChecks(final_param_defs, has_body, body_required, body_arg_name) ==
    LET Req(p) == p.required
        sel == SelectSeq(final_param_defs, Req)
    IN  [k \in 1..Len(sel) |->
            [arg_name |-> sel[k].arg_name,
             message  |-> [kind |-> "parameter", in |-> sel[k]["in"],
                           arg_name |-> sel[k].arg_name, original |-> sel[k].name]]]
        \o (IF has_body /\ body_required
            THEN <<[arg_name |-> body_arg_name,
                    message  |-> [kind |-> "request body"]]>>
            ELSE <<>>)

(* the arguments of the emitted self._<verb>(...) call: url positionally, *)
(* the rest by keyword                                                    *)
RequestArgs(has_body) ==
    <<[keyword |-> "", value |-> "url"],
      [keyword |-> "params", value |-> "query_params"],
      [keyword |-> "headers", value |-> "header_params"]>>
    \o (IF has_body THEN <<[keyword |-> "json", value |-> "json_body"]>> ELSE <<>>)

(* generate_method_code: (func_name, method_code, final_param_defs); the  *)
(* method code is kept as its parts, the docstring left out               *)
generate_method_code(path, method, operation, parameters) ==
    LET func_name == FuncName(path, method, operation)
        has_body == HasBody(operation)
        body_required == BodyRequired(operation)
        final_param_defs == ParamLoop(parameters, <<>>)
        assigned_arg_names == {final_param_defs[k].arg_name : k \in 1..Len(final_param_defs)}
        body_arg_name == IF has_body
                         THEN BodyArgName(s_request_body, assigned_arg_names)
                         ELSE s_request_body
        args == [k \in 1..Len(final_param_defs) |->
                    SignatureArg(final_param_defs[k].arg_name,
                                 final_param_defs[k].py_type,
                                 final_param_defs[k].required)]
                \o (IF has_body
                    THEN <<SignatureArg(body_arg_name, BodyArgType(operation), body_required)>>
                    ELSE <<>>)
    IN  [func_name |-> func_name,
         method_code |->
            [func_name     |-> func_name,
             args          |-> args,
             checks        |-> ValidationChecks(final_param_defs, has_body,
                                                body_required, body_arg_name),
             path          |-> path,
             path_params   |-> ItemsIn(final_param_defs, in_path),
             query_params  |-> ItemsIn(final_param_defs, in_query),
             header_params |-> ItemsIn(final_param_defs, in_header),
             has_body      |-> has_body,
             body_arg_name |-> body_arg_name,
             http_verb     |-> Lower(method),
             request_args  |-> RequestArgs(has_body)],
         final_param_defs |-> final_param_defs,
         warnings |-> ParamWarnings(func_name, parameters)]

---------------------------------------------------------------------------
(* generate_tool_definition                                                *)

(* the manifest type of a parameter *)
ToolType(param_schema) ==
    LET param_type == Get(param_schema, "type", "string")
    IN  IF param_type = "integer" THEN "number"
        ELSE IF param_type \notin {"string", "number", "boolean", "array", "object"}
        THEN "string"
        ELSE param_type

(* the key under which the request body is entered in properties *)
ToolBodyArgName == s_request_body

(* the loop over final_param_defs: properties and required *)
RECURSIVE ToolParamLoop(_, _)
ToolParamLoop(final_param_defs, tool_params) ==
    IF final_param_defs = <<>> THEN tool_params
    ELSE LET param_def == Head(final_param_defs)
             arg_name == param_def.arg_name
         IN  ToolParamLoop(Tail(final_param_defs),
                 [tool_params EXCEPT
                    !.properties = Put(@, arg_name,
                                       [description |-> param_def.description,
                                        type |-> ToolType(param_def.schema)]),
                    !.required = IF param_def.required THEN Append(@, arg_name) ELSE @])

(* the tool parameters before `required` is deleted when empty *)
ToolParams(operation, final_param_defs) ==
    LET after_params ==
            ToolParamLoop(final_param_defs,
                          [type |-> "object", properties |-> EmptyDict, required |-> <<>>])
        request_body_info == RequestBodyInfo(operation)
    IN  IF Truthy(request_body_info)
        THEN [after_params EXCEPT
                !.properties = Put(@, ToolBodyArgName, EmptyDict),
                !.required = IF Get(request_body_info, "required", FALSE)
                             THEN Append(@, ToolBodyArgName) ELSE @]
        ELSE after_params

(* generate_tool_definition: None (the empty value) without a function name *)
generate_tool_definition(func_name, operation, final_param_defs) ==
    IF ~Truthy(func_name) THEN EmptyDict
    ELSE LET tool_params == ToolParams(operation, final_param_defs)
         IN  [parameters |->
                IF tool_params.required = <<>>
                THEN [type |-> tool_params.type, properties |-> tool_params.properties]
                ELSE tool_params]

---------------------------------------------------------------------------
(* generate_api_client: base URL and class name                            *)

UpperChar(c) ==
    IF c \in Range(Lowers)
    THEN Uppers[CHOOSE k \in 1..Len(Lowers) : Lowers[k] = c]
    ELSE c

(* c.isdigit() and c.isalnum() for the ASCII characters *)
IsDigit(c) == c \in Range(Digits)

IsAlnum(c) == c \in Range(Uppers) \cup Range(Lowers) \cup Range(Digits)

(* str.capitalize(): the first character upper case, the others lower case *)
Capitalize(s) == [k \in 1..Len(s) |-> IF k = 1 THEN UpperChar(s[k]) ELSE LowerChar(s[k])]

(* str.split(): the pieces between runs of blanks, no empty piece *)
SplitWhitespace(s) == SelectSeq(Split(s, " "), LAMBDA piece : piece # <<>>)

RECURSIVE Concat(_)
Concat(parts) == IF parts = <<>> THEN <<>> ELSE Head(parts) \o Concat(Tail(parts))

s_placeholder_url ==
    <<"{","Y","O","U","R","_","A","P","I","_","B","A","S","E","_","U","R","L","}">>

s_default_title ==
    <<"G","e","n","e","r","a","t","e","d"," ","A","P","I"," ","C","l","i","e","n","t">>

s_default_class_name ==
    <<"G","e","n","e","r","a","t","e","d","A","p","i","C","l","i","e","n","t">>

s_Api == <<"A","p","i">>

(* servers[0]['url'].rstrip('/') *)
BaseUrlOf(url) == RStrip(url, "/")

(* the base URL taken from the schema, or the placeholder *)
ApiBaseUrl(doc) ==
    LET servers == Get(doc, "servers", <<>>)
    IN  IF Truthy(servers) /\ "url" \in DOMAIN servers[1]
        THEN BaseUrlOf(servers[1].url)
        ELSE s_placeholder_url

ApiTitle(doc) == Get(Get(doc, "info", EmptyDict), "title", s_default_title)

BaseName(api_title) ==
    LET words == SplitWhitespace(Replace(Replace(api_title, "-", " "), "_", " "))
    IN  Concat([k \in 1..Len(words) |-> Capitalize(words[k])])

(* sanitized_name before the default is applied *)
SanitizedName(api_title) ==
    SelectSeq(BaseName(api_title), LAMBDA c : IsAlnum(c) \/ c = "_")

(* the prefix decision on a sanitized name that starts with a letter only *)
PrefixName_Never(sanitized_name) == sanitized_name

(* the prefix decision: Api before a leading digit or underscore *)
PrefixName(sanitized_name) ==
    IF IsDigit(sanitized_name[1]) THEN s_Api \o sanitized_name
    ELSE IF sanitized_name[1] = "_" THEN s_Api \o sanitized_name
    ELSE sanitized_name

ClassName(doc) ==
    LET sanitized_name == SanitizedName(ApiTitle(doc))
    IN  PrefixName(IF ~Truthy(sanitized_name) THEN s_default_class_name
                   ELSE sanitized_name)

(* ResolvedBaseUrl that prefers the schema's URL to the argument *)
ResolvedBaseUrl_SchemaFirst(api_base_url, schema_base_url) ==
    IF Truthy(schema_base_url) THEN schema_base_url ELSE api_base_url

(* the constructor: self.api_base_url = api_base_url or '<schema-derived>' *)
ResolvedBaseUrl(api_base_url, schema_base_url) ==
    IF Truthy(api_base_url) THEN api_base_url ELSE schema_base_url

---------------------------------------------------------------------------
(* generate_api_client: one (path, method) of the schema                   *)

(* ParamKey that tells parameters apart by name only *)
ParamKey_NameOnly(p) ==
    <<Get(p, "name", EmptyStr),
      IF Truthy(Get(p, "in", EmptyStr)) THEN <<"*">> ELSE EmptyStr>>

(* the dict key (p.get('name'), p.get('in')) *)
ParamKey(p) == <<Get(p, "name", EmptyStr), Get(p, "in", EmptyStr)>>

(* dict.update with the comprehension over params: a key keeps the place  *)
(* of its first insertion and takes the last value written                *)
RECURSIVE UpdateParamsMap(_, _)
UpdateParamsMap(combined_params_map, params) ==
    IF params = <<>> THEN combined_params_map
    ELSE LET p == Head(params)
         IN  IF ~(Truthy(ParamKey(p)[1]) /\ Truthy(ParamKey(p)[2]))
             THEN UpdateParamsMap(combined_params_map, Tail(params))
             ELSE IF ParamKey(p) \in Keys(combined_params_map)
             THEN UpdateParamsMap(
                    [k \in 1..Len(combined_params_map) |->
                        IF combined_params_map[k][1] = ParamKey(p)
                        THEN <<ParamKey(p), p>>
                        ELSE combined_params_map[k]],
                    Tail(params))
             ELSE UpdateParamsMap(Append(combined_params_map, <<ParamKey(p), p>>),
                                  Tail(params))

(* combined_parameters: path-level parameters, overridden by the operation's *)
CombinedParameters(path_level_params, operation_params) ==
    LET combined_params_map ==
            UpdateParamsMap(UpdateParamsMap(<<>>, path_level_params), operation_params)
    IN  [k \in 1..Len(combined_params_map) |-> combined_params_map[k][2]]

(* the test that a key of the path item is an operation to compile *)
IsCompiledVerb(method) == Lower(method) \in HttpVerbs

(* GenerationSucceeded without the test of func_name *)
GenerationSucceeded_Always(generated) == TRUE

(* `if func_name and final_defs is not None` *)
GenerationSucceeded(generated) == Truthy(generated.func_name)

(* Values of the schema that are not of the expected shape: null is       *)
(* [py_none |-> TRUE], a string where a mapping is expected [py_str |-> s] *)
None == [py_none |-> TRUE]

IsNone(x) == ToString(x) = ToString(None)

IsMapping(x) == DOMAIN x # {"py_none"} /\ DOMAIN x # {"py_str"}

(* the exception the loop body raises on an entry, "" when it raises none: *)
(* operation.get on a non-mapping, iterating a null parameter list,        *)
(* .replace on a null operationId, .get on a non-mapping request body      *)
Raises(entry) ==
    IF ~IsMapping(entry.operation) THEN "AttributeError"
    ELSE IF IsNone(entry.path_level_params) THEN "TypeError"
    ELSE IF IsNone(Get(entry.operation, "parameters", <<>>)) THEN "TypeError"
    ELSE IF "operationId" \in DOMAIN entry.operation
            /\ IsNone(entry.operation.operationId) THEN "AttributeError"
    ELSE IF ~IsMapping(Get(entry.operation, "requestBody", EmptyDict))
    THEN "AttributeError"
    ELSE ""

(* what one entry of the schema adds to methods, tools and warnings *)
CompileEntry(entry) ==
    LET generated == generate_method_code(
                        entry.path, entry.method, entry.operation,
                        CombinedParameters(entry.path_level_params,
                                           Get(entry.operation, "parameters", <<>>)))
        tool_definition == generate_tool_definition(
                              generated.func_name, entry.operation,
                              generated.final_param_defs)
    IN  IF ~IsCompiledVerb(entry.method)
        THEN [methods |-> <<>>, tools |-> <<>>, warnings |-> <<>>]
        ELSE IF GenerationSucceeded(generated)
        THEN [methods  |-> <<generated.method_code>>,
              tools    |-> IF Truthy(tool_definition) THEN <<tool_definition>> ELSE <<>>,
              warnings |-> generated.warnings]
        ELSE [methods |-> <<>>, tools |-> <<>>,
              warnings |-> Append(generated.warnings,
                                  [kind |-> "operation", method |-> Lower(entry.method),
                                   path |-> entry.path])]

(* State.  schema: the (path, method) pairs of schema['paths'] in          *)
(* iteration order, each with its path-level parameters and its operation; *)
(* document: the rest of the schema dict (servers, info);                  *)
(* idx: the pair the loop is at; methods, tools: the lists being built;    *)
(* warnings: the warnings printed, for a skipped parameter or operation;  *)
(* emitted[i]: how many methods and tools pair i appended (history);       *)
(* client: the emitted class, or the exception that ended the run;         *)
(* instance: an object of the emitted class, once constructed;            *)
(* call: one invocation of a generated method and its outcome;            *)
(* file: the path load_schema is given, and what it returns or raises;    *)
(* env: what the application's _get_headers does and the status the       *)
(* remote API answers with.                                               *)

(* GenerateOperation in which the parameters of the operation compiled   *)
(* before stay in scope of the next one                                   *)
GenerateOperation_SharedNames ==
    /\ stage = "paths"
    /\ idx <= Len(schema)
    /\ LET carried == IF idx = 1 THEN <<>>
                      ELSE Get(schema[idx - 1].operation, "parameters", <<>>)
           out == CompileEntry([schema[idx] EXCEPT !.path_level_params = carried \o @])
       IN  /\ methods' = methods \o out.methods
           /\ tools' = tools \o out.tools
           /\ warnings' = warnings \o out.warnings
           /\ emitted' = Append(emitted, [methods |-> Len(out.methods),
                                          tools |-> Len(out.tools)])
    /\ idx' = idx + 1
    /\ UNCHANGED <<schema, document, stage, client, instance, call, file, env>>

GenerateOperation ==
    /\ stage = "paths"
    /\ idx <= Len(schema)
    /\ IF IsCompiledVerb(schema[idx].method) /\ Raises(schema[idx]) # ""
       THEN /\ stage' = "aborted"
            /\ client' = [raised |-> Raises(schema[idx])]
            /\ UNCHANGED <<idx, methods, tools, warnings, emitted>>
       ELSE /\ LET out == CompileEntry(schema[idx])
               IN  /\ methods' = methods \o out.methods
                   /\ tools' = tools \o out.tools
                   /\ warnings' = warnings \o out.warnings
                   /\ emitted' = Append(emitted, [methods |-> Len(out.methods),
                                                  tools |-> Len(out.tools)])
            /\ idx' = idx + 1
            /\ UNCHANGED <<stage, client>>
    /\ UNCHANGED <<schema, document, instance, call, file, env>>

(* Assemble that refuses a schema that produced no method *)
Assemble_NeedsMethod ==
    /\ stage = "paths"
    /\ idx > Len(schema)
    /\ methods # <<>>
    /\ client' = [class_name   |-> s_default_class_name,
                  api_base_url |-> s_placeholder_url,
                  members      |-> EmptyDict,
                  list_tools   |-> tools]
    /\ stage' = "assembled"
    /\ UNCHANGED <<schema, document, idx, methods, tools, warnings, emitted, instance, call,
                   file, env>>

(* the class body: a later def of a name replaces an earlier one *)
RECURSIVE ClassMembers(_, _)
ClassMembers(method_list, members) ==
    IF method_list = <<>> THEN members
    ELSE ClassMembers(Tail(method_list),
                      Put(members, Head(method_list).func_name, Head(method_list)))

Assemble ==
    /\ stage = "paths"
    /\ idx > Len(schema)
    /\ client' = [class_name   |-> ClassName(document),
                  api_base_url |-> ApiBaseUrl(document),
                  members      |-> ClassMembers(methods, EmptyDict),
                  list_tools   |-> tools]
    /\ stage' = "assembled"
    /\ UNCHANGED <<schema, document, idx, methods, tools, warnings, emitted, instance, call,
                   file, env>>

---------------------------------------------------------------------------
(* APIApplication: the verb helpers a generated method can call            *)

(* the helpers the base class defines, each with its parameters after self *)
BaseHelpers ==
    <<<<s_get,    <<"url", "params", "headers">>>>,
      <<s_post,   <<"url", "data", "headers">>>>,
      <<s_put,    <<"url", "data", "headers">>>>,
      <<s_delete, <<"url", "headers">>>>>>

(* APIApplication._get_headers *)
BaseGetHeaders == EmptyDict

(* What self._get_headers() does: it returns a header map or raises. The *)
(* base class returns {}; a subclass overrides it, as GithubApp does with *)
(* the credential headers of its integration.                             *)
BaseApp == [raised |-> "", headers |-> BaseGetHeaders]

(* the environment of a generated client that overrides nothing, calling *)
(* an API that answers 200                                                *)
DefaultEnv == [get_headers |-> BaseApp, status |-> 200]

(* `headers or self._get_headers()` in which the headers passed are laid *)
(* over those of _get_headers                                             *)
EffectiveHeaders_Merged(headers, get_headers) ==
    [k \in DOMAIN get_headers.headers \cup DOMAIN headers |->
        IF k \in DOMAIN headers THEN headers[k] ELSE get_headers.headers[k]]

(* `headers = headers or self._get_headers()`, where _get_headers returns *)
EffectiveHeaders(headers, get_headers) ==
    IF Truthy(headers) THEN headers ELSE get_headers.headers

(* response.raise_for_status(): the exception raised for a status, "" for *)
(* none                                                                   *)
RaiseForStatus_Never(status) == ""

RaiseForStatus(status) == IF status >= 400 THEN "HTTPStatusError" ELSE ""

NoRequest == EmptyDict

NoResponse == EmptyDict

NoHelperCall == EmptyDict

(* what each helper hands to httpx, from its bound parameters (an unbound *)
(* parameter has its default, None)                                       *)
HelperRequest(verb, bound, headers) ==
    CASE verb = s_get ->
            [verb |-> verb, url |-> bound.url, headers |-> headers,
             params |-> Get(bound, "params", EmptyDict)]
      [] verb \in {s_post, s_put} ->
            [verb |-> verb, url |-> bound.url, headers |-> headers,
             json |-> Get(bound, "data", "None")]
      [] OTHER ->
            [verb |-> verb, url |-> bound.url, headers |-> headers]

(* _get, _post, _put, _delete: the headers, the request, raise_for_status, *)
(* and the response returned; an HTTPStatusError is re-raised              *)
HelperCall(verb, bound, e) ==
    LET headers_argument == Get(bound, "headers", EmptyDict)
        get_headers_called == ~Truthy(headers_argument)
    IN  IF get_headers_called /\ e.get_headers.raised # ""
        THEN [verb |-> verb, headers_argument |-> headers_argument,
              get_headers_called |-> TRUE, raised |-> e.get_headers.raised,
              request |-> NoRequest, returned |-> NoResponse]
        ELSE LET request == HelperRequest(verb, bound,
                                          EffectiveHeaders(headers_argument,
                                                           e.get_headers))
                 raised == RaiseForStatus(e.status)
             IN  [verb |-> verb, headers_argument |-> headers_argument,
                  get_headers_called |-> get_headers_called, raised |-> raised,
                  request |-> request,
                  returned |-> IF raised = "" THEN [status_code |-> e.status]
                               ELSE NoResponse]

---------------------------------------------------------------------------
(* A generated method, run with argument values                            *)

(* Argument values are Python literals; "None" is the absent value.        *)
StrOf(value) ==
    CASE value = "None"  -> <<"N","o","n","e">>
      [] value = "0"     -> <<"0">>
      [] value = "False" -> <<"F","a","l","s","e">>
      [] value = "''"    -> <<>>
      [] OTHER           -> <<"v">>

(* KeepItem filtering on truth value (`if v`) instead of absence *)
KeepItem_Truthy(v) == v \notin {"None", "0", "False", "''"}

(* the filter of the query and header comprehensions: `if v is not None` *)
KeepItem(v) == v # "None"

(* {k: v for k, v in [items] if v is not None} *)
RECURSIVE BuildMap(_, _, _)
BuildMap(items, vals, acc) ==
    IF items = <<>> THEN acc
    ELSE LET k == Head(items)[1]
             v == vals[Head(items)[2]]
         IN  BuildMap(Tail(items), vals, IF KeepItem(v) THEN Put(acc, k, v) ELSE acc)

(* index of the first c in s, 0 when there is none *)
IndexOf(s, c) ==
    IF c \in Range(s) THEN CHOOSE k \in 1..Len(s) : s[k] = c /\ \A j \in 1..(k - 1) : s[j] # c
    ELSE 0

(* The emitted f"{self.api_base_url}<path>": each {expr} of the path is    *)
(* evaluated in the method's scope.  An expr that is an argument's name    *)
(* gives str() of its value; any other expr reads names the method does    *)
(* not define.  The text is the part after self.api_base_url.             *)
RECURSIVE EvalPath(_, _)
EvalPath(chars, vals) ==
    IF chars = <<>> THEN [error |-> "", text |-> <<>>]
    ELSE IF Head(chars) = "{"
    THEN LET close == IndexOf(chars, "}")
             expr == SubSeq(chars, 2, close - 1)
             rest == EvalPath(SubSeq(chars, close + 1, Len(chars)), vals)
         IN  IF close = 0 THEN [error |-> "SyntaxError", text |-> <<>>]
             ELSE IF expr \notin DOMAIN vals THEN [error |-> "NameError", text |-> <<>>]
             ELSE IF rest.error # "" THEN rest
             ELSE [error |-> "", text |-> StrOf(vals[expr]) \o rest.text]
    ELSE IF Head(chars) = "}" THEN [error |-> "SyntaxError", text |-> <<>>]
    ELSE LET rest == EvalPath(Tail(chars), vals)
         IN  IF rest.error # "" THEN rest
             ELSE [error |-> "", text |-> <<Head(chars)>> \o rest.text]

(* the first validation check that fails, 0 when all pass *)
FirstFailedCheck(checks, vals) ==
    IF \E k \in 1..Len(checks) : vals[checks[k].arg_name] = "None"
    THEN CHOOSE k \in 1..Len(checks) :
            /\ vals[checks[k].arg_name] = "None"
            /\ \A j \in 1..(k - 1) : vals[checks[j].arg_name] # "None"
    ELSE 0

(* binding the emitted call's arguments to the helper's parameters *)
KeywordsOf(request_args) ==
    {request_args[k].keyword : k \in 1..Len(request_args)} \ {""}

BindCall(m, helper_params, url, query_params, header_params, json_body) ==
    LET passed == [url |-> url, params |-> query_params, headers |-> header_params]
    IN  [n \in {"url"} \cup (KeywordsOf(m.request_args) \cap Range(helper_params)) |->
            IF n = "data" THEN json_body ELSE passed[n]]

(* how a run of a generated method ends: helper is what the helper did,  *)
(* when the method got as far as calling one; the method returns what the *)
(* helper returns                                                         *)
Outcome(raised, message, dispatched, maps_built, url, query_params, header_params, helper) ==
    [raised |-> raised, message |-> message, dispatched |-> dispatched,
     maps_built |-> maps_built, url |-> url, query_params |-> query_params,
     header_params |-> header_params,
     request |-> IF helper = NoHelperCall THEN NoRequest ELSE helper.request,
     helper |-> helper,
     returned |-> IF helper = NoHelperCall THEN NoResponse ELSE helper.returned]

(* whether Python accepts the emitted `def`: no argument without default  *)
(* after one with a default                                               *)
ValidSignature(args) ==
    \A i, j \in 1..Len(args) : (i < j /\ args[i].has_default) => args[j].has_default

(* the generated method m, compiled and run with vals: arg_name -> value, *)
(* in environment e                                                       *)
RunMethod(m, vals, e) ==
    LET failed == FirstFailedCheck(m.checks, vals)
        url == EvalPath(m.path, vals)
        query_params == BuildMap(m.query_params, vals, EmptyDict)
        header_params == BuildMap(m.header_params, vals, EmptyDict)
        json_body == IF m.has_body THEN vals[m.body_arg_name] ELSE "None"
        helper_params == Lookup(BaseHelpers, m.http_verb, <<>>)
    IN  IF ~ValidSignature(m.args)
        THEN Outcome("SyntaxError", EmptyDict, FALSE, FALSE,
                     <<>>, EmptyDict, EmptyDict, NoHelperCall)
        ELSE IF failed # 0
        THEN Outcome("ValueError", m.checks[failed].message, FALSE, FALSE,
                     <<>>, EmptyDict, EmptyDict, NoHelperCall)
        ELSE IF url.error # ""
        THEN Outcome(url.error, EmptyDict, FALSE, FALSE, <<>>, EmptyDict, EmptyDict, NoHelperCall)
        ELSE IF m.http_verb \notin Keys(BaseHelpers)
        THEN Outcome("AttributeError", EmptyDict, TRUE, TRUE,
                     url.text, query_params, header_params, NoHelperCall)
        ELSE IF ~(KeywordsOf(m.request_args) \subseteq Range(helper_params))
        THEN Outcome("TypeError", EmptyDict, TRUE, TRUE,
                     url.text, query_params, header_params, NoHelperCall)
        ELSE LET helper == HelperCall(m.http_verb,
                                      BindCall(m, helper_params, url.text, query_params,
                                               header_params, json_body), e)
             IN  Outcome(helper.raised, EmptyDict, TRUE, TRUE, url.text, query_params,
                         header_params, helper)

(* the values a caller passes: any of these for a query or header         *)
(* argument, absent or present for a path or body argument                *)
ArgValues == {"None", "0", "False", "''", "'v'"}

ArgNames(m) == {m.args[k].arg_name : k \in 1..Len(m.args)}

QueryOrHeaderArgs(m) ==
    {m.query_params[k][2] : k \in 1..Len(m.query_params)}
    \cup {m.header_params[k][2] : k \in 1..Len(m.header_params)}

CallValues(m) ==
    {vals \in [ArgNames(m) -> ArgValues] :
        \A a \in ArgNames(m) \ QueryOrHeaderArgs(m) : vals[a] \in {"None", "'v'"}}

NoCall == EmptyDict

Invoke ==
    /\ stage = "assembled"
    /\ \E name \in DOMAIN client.members :
         \E vals \in CallValues(client.members[name]) :
            call' = [method |-> client.members[name], vals |-> vals,
                     outcome |-> RunMethod(client.members[name], vals, env)]
    /\ stage' = "called"
    /\ UNCHANGED <<schema, document, idx, methods, tools, warnings, emitted, client,
                   instance, file, env>>

(* the header maps a caller hands to a helper: none (the default None,   *)
(* read for its truth value only), an empty one, one with a header        *)
HelperHeaders ==
    {[passed |-> FALSE], [passed |-> TRUE, value |-> EmptyDict],
     [passed |-> TRUE, value |-> (<<"A", "c", "c", "e", "p", "t">> :> "'v'")]}

(* a method of the application calls a helper itself, as GithubApp's      *)
(* methods do                                                             *)
CallHelper ==
    /\ stage = "assembled"
    /\ \E verb \in Keys(BaseHelpers), h \in HelperHeaders :
          LET bound == IF h.passed THEN [url |-> <<"u">>, headers |-> h.value]
                       ELSE [url |-> <<"u">>]
              helper == HelperCall(verb, bound, env)
          IN  call' = [helper |-> verb, bound |-> bound,
                       outcome |-> [raised |-> helper.raised, helper |-> helper,
                                    returned |-> helper.returned]]
    /\ stage' = "called"
    /\ UNCHANGED <<schema, document, idx, methods, tools, warnings, emitted, client,
                   instance, file, env>>

NoInstance == EmptyDict

(* what a caller passes as api_base_url: nothing (the default None, read  *)
(* for its truth value only) or a string                                  *)
ConstructArgs ==
    {[supplied |-> FALSE]}
    \cup {[supplied |-> TRUE, value |-> u] :
            u \in {EmptyStr, <<"h">>, <<"h", "/">>, <<"{", "e", "}">>, s_placeholder_url}}

(* __init__ of the emitted class *)
Construct ==
    /\ stage = "assembled"
    /\ \E arg \in ConstructArgs :
          LET api_base_url == IF arg.supplied THEN arg.value ELSE EmptyStr
              resolved == ResolvedBaseUrl(api_base_url, client.api_base_url)
          IN  instance' = [argument     |-> arg,
                           api_base_url |-> resolved,
                           warned       |-> ~Truthy(resolved)
                                               \/ resolved = s_placeholder_url]
    /\ stage' = "constructed"
    /\ UNCHANGED <<schema, document, idx, methods, tools, warnings, emitted, client, call,
                   file, env>>

---------------------------------------------------------------------------
(* load_schema                                                             *)

(* str.rfind(c), 1-based: 0 when c does not occur *)
RIndexOf(s, c) ==
    IF c \in Range(s)
    THEN CHOOSE k \in 1..Len(s) : s[k] = c /\ \A j \in (k + 1)..Len(s) : s[j] # c
    ELSE 0

(* Path.suffix: the file name from its last dot on, empty when the name   *)
(* has no dot or only a leading or a trailing one                         *)
Suffix(name) ==
    LET i == RIndexOf(name, ".")
    IN  IF 1 < i /\ i < Len(name) THEN SubSeq(name, i, Len(name)) ELSE EmptyStr

x_yaml == <<".", "y", "a", "m", "l">>
x_yml  == <<".", "y", "m", "l">>
x_json == <<".", "j", "s", "o", "n">>

(* The contents a file can have. The parsed values are Python literals,   *)
(* kept as atoms.                                                         *)
t_empty       == EmptyStr
t_flow_map    == <<"{", "}">>
t_block_map   == <<"a", ":", " ", "1">>
t_number_list == <<"[", "1", "e", "3", "]">>
t_unclosed    == <<"{", "a">>

(* json.load *)
JsonLoad(text) ==
    CASE text = t_flow_map    -> [error |-> "", value |-> "{}"]
      [] text = t_number_list -> [error |-> "", value |-> "[1000.0]"]
      [] OTHER                -> [error |-> "JSONDecodeError", value |-> "None"]

(* yaml.safe_load: an empty document is None, 1e3 is a string *)
YamlSafeLoad(text) ==
    CASE text = t_empty       -> [error |-> "", value |-> "None"]
      [] text = t_flow_map    -> [error |-> "", value |-> "{}"]
      [] text = t_block_map   -> [error |-> "", value |-> "{'a': 1}"]
      [] text = t_number_list -> [error |-> "", value |-> "['1e3']"]
      [] OTHER                -> [error |-> "ParserError", value |-> "None"]

(* the loader chosen for a lower-cased suffix, "" for none; one that      *)
(* parses every supported file as YAML                                    *)
Loader_AlwaysYaml(suffix) ==
    IF suffix \in {x_yaml, x_yml, x_json} THEN "yaml.safe_load" ELSE ""

Loader(suffix) ==
    IF suffix = x_yaml \/ suffix = x_yml THEN "yaml.safe_load"
    ELSE IF suffix = x_json THEN "json.load"
    ELSE ""

Loaded(raised, message, value) == [raised |-> raised, message |-> message, value |-> value]

(* path: its file name, what is at the path ("missing", "directory" or    *)
(* "file") and, for a file, its content                                   *)
load_schema(path) ==
    IF path.kind # "file"
    THEN Loaded("FileNotFoundError",
                [text |-> "Schema file not found", path |-> path.name], "None")
    ELSE LET suffix == Lower(Suffix(path.name))
             loader == Loader(suffix)
             parsed == IF loader = "json.load" THEN JsonLoad(path.text)
                       ELSE YamlSafeLoad(path.text)
         IN  IF loader = ""
             THEN Loaded("ValueError",
                         [text |-> "Unsupported schema file type", suffix |-> suffix],
                         "None")
             ELSE IF parsed.error # ""
             THEN Loaded("ValueError",
                         [text |-> "Error parsing schema file", path |-> path.name,
                          cause |-> parsed.error], "None")
             ELSE Loaded("", EmptyDict, parsed.value)

LoadSchema ==
    /\ stage = "file"
    /\ file' = [path |-> file.path, outcome |-> load_schema(file.path)]
    /\ stage' = "loaded"
    /\ UNCHANGED <<schema, document, idx, methods, tools, warnings, emitted, client,
                   instance, call, env>>

---------------------------------------------------------------------------
(* Inputs                                                                  *)

MaxParams == 3

MaxOps == 2

MaxRunParams == 2

SeqsUpTo(S, n) == UNION {[1..k -> S] : k \in 0..n}

s_id         == <<"i","d">>
s_id_query   == <<"i","d","_","q","u","e","r","y">>
s_id_hquery  == <<"i","d","-","q","u","e","r","y">>
s_user_id    == <<"u","s","e","r","_","i","d">>
s_limit      == <<"l","i","m","i","t">>
s_tag        == <<"t","a","g">>
s_trace      == <<"t","r","a","c","e">>

p_r          == <<"/","r">>
p_users      == <<"/","u","s","e","r","s">>
p_users_by   == p_users \o <<"/","{">> \o s_user_id \o <<"}">>
p_a_hyphen_b == <<"/","a","-","b">>
p_a_under_b  == <<"/","a","_","b">>
p_A_param    == <<"/","A","/","/","{","b","-","c","}","/">>

MediaObject == [schema |-> [type |-> "object"]]

JsonContent == <<<<"application/json", MediaObject>>>>

(* Parameter lists whose names collide: the same wire name in several     *)
(* locations, names that differ in '-' and '_', a name of the form        *)
(* <name>_<location>, and the body argument's own name.  A path parameter *)
(* declares required: true, as OpenAPI demands; the others leave it out.  *)
ArgWireNames == {s_id, s_id_query, s_id_hquery, s_request_body}

ArgParams ==
    {[name |-> n, in |-> in_path, required |-> TRUE, schema |-> [type |-> "integer"]] :
        n \in ArgWireNames}
    \cup {[name |-> n, in |-> l] : n \in ArgWireNames, l \in {in_query, in_header}}

ArgBodies == {[required |-> TRUE, content |-> JsonContent], [content |-> JsonContent]}

ArgOperations ==
    {[parameters |-> ps] : ps \in SeqsUpTo(ArgParams, MaxParams)}
    \cup {[parameters |-> ps, requestBody |-> b] :
            ps \in SeqsUpTo(ArgParams, MaxParams), b \in ArgBodies}

NoFile == EmptyDict

StartIn(s, doc, e) ==
    /\ schema = s
    /\ document = doc
    /\ env = e
    /\ file = NoFile
    /\ stage = "paths"
    /\ idx = 1
    /\ methods = <<>>
    /\ tools = <<>>
    /\ warnings = <<>>
    /\ emitted = <<>>
    /\ client = EmptyDict
    /\ instance = NoInstance
    /\ call = NoCall

StartDocument(s, doc) == StartIn(s, doc, DefaultEnv)

Start(s) == StartDocument(s, EmptyDict)

Init ==
    \E op \in ArgOperations :
        Start(<<[path |-> p_r, path_level_params |-> <<>>, method |-> s_post,
                 operation |-> op]>>)

(* Schemas of several operations: paths and operationIds that differ only *)
(* in '-', '_', '.' and case, an empty operationId, and a verb the         *)
(* generator does not compile.                                            *)
ClientPaths == {p_a_hyphen_b, p_a_under_b, p_A_param}

ClientMethods == {s_get, s_post, s_trace}

ClientOperations ==
    {[summary |-> "s"]}
    \cup {[summary |-> "s", operationId |-> id] :
            id \in {EmptyStr, <<"a",".","B">>, <<"a","-","B">>}}

ClientEntries ==
    {[path |-> p, path_level_params |-> <<>>, method |-> m, operation |-> op] :
        p \in ClientPaths, m \in ClientMethods, op \in ClientOperations}

(* a dict has each (path, method) once, and the methods of a path together *)
DictOrder(s) ==
    /\ \A i, j \in 1..Len(s) :
          i # j => <<s[i].path, s[i].method>> # <<s[j].path, s[j].method>>
    /\ \A i, j, k \in 1..Len(s) :
          (i < j /\ j < k /\ s[i].path = s[k].path) => s[j].path = s[i].path

InitClient ==
    \E s \in SeqsUpTo(ClientEntries, MaxOps) : DictOrder(s) /\ Start(s)

(* One operation, to be called: parameters in the three locations with    *)
(* every declaration of `required`, request bodies of several media types, *)
(* every verb.                                                            *)
RunParams ==
    {[name |-> loc[1], in |-> loc[2]] :
        loc \in {<<s_user_id, in_path>>, <<s_limit, in_query>>, <<s_tag, in_header>>}}
    \cup {[name |-> loc[1], in |-> loc[2], required |-> r] :
            loc \in {<<s_user_id, in_path>>, <<s_limit, in_query>>, <<s_tag, in_header>>},
            r \in BOOLEAN}

RunBodies ==
    {[required |-> TRUE, content |-> JsonContent],
     [required |-> TRUE,
      content |-> <<<<"application/x-www-form-urlencoded", MediaObject>>>>],
     [content |-> <<<<"multipart/form-data", MediaObject>>,
                    <<"application/json", MediaObject>>>>],
     [required |-> FALSE,
      content |-> <<<<"text/plain", MediaObject>>,
                    <<"multipart/form-data", MediaObject>>>>]}

RunOperations ==
    {[operationId |-> <<"o","p">>, parameters |-> ps] :
        ps \in SeqsUpTo(RunParams, MaxRunParams)}
    \cup {[operationId |-> <<"o","p">>, parameters |-> ps, requestBody |-> b] :
            ps \in SeqsUpTo(RunParams, MaxRunParams), b \in RunBodies}

(* the path template names the path parameter when one is declared *)
RunPath(op) ==
    IF \E k \in 1..Len(op.parameters) : op.parameters[k]["in"] = in_path
    THEN p_users_by ELSE p_users

InitRun ==
    \E op \in RunOperations, m \in HttpVerbs :
        Start(<<[path |-> RunPath(op), path_level_params |-> <<>>, method |-> m,
                 operation |-> op]>>)

(* The schema's info and servers: titles over letters of both cases, a    *)
(* digit, the three word separators and a punctuation mark; server lists  *)
(* that are absent, empty, without url, and with urls that end in slashes *)
(* or hold a {variable} placeholder.                                      *)
MaxTitleLen == 3

TitleChars == {"a", "B", "1", " ", "-", "_", "."}

Titles == SeqsUpTo(TitleChars, MaxTitleLen)

u_example ==
    <<"h","t","t","p","s",":","/","/","a","p","i",".","e","x","a","m","p","l","e",
      ".","c","o","m","/","v","1">>

u_variable ==
    <<"h","t","t","p","s",":","/","/","{","e","n","v","}",".","e","x","a","m","p","l","e",
      ".","c","o","m","/","v","1","/">>

ServerUrls ==
    {u_example, u_example \o <<"/">>, u_example \o <<"/","/">>, u_variable, EmptyStr}

ServerLists ==
    {<<>>, <<[description |-> "d"]>>}
    \cup {<<[url |-> u]>> : u \in ServerUrls}
    \cup {<<[url |-> u], [url |-> u_example]>> : u \in ServerUrls}

Documents ==
    {[info |-> [title |-> t]] : t \in Titles}
    \cup {[info |-> [title |-> t], servers |-> sv] : t \in Titles, sv \in ServerLists}
    \cup {[servers |-> sv] : sv \in ServerLists}

InitDocument ==
    \E doc \in Documents :
        StartDocument(<<[path |-> p_users, path_level_params |-> <<>>, method |-> s_get,
                         operation |-> [summary |-> "s"]]>>, doc)


(* Names a schema can supply: operationIds, path segments and parameter   *)
(* wire names with a blank, a leading digit, a dot or a hyphen, and a     *)
(* parameter with an empty name.                                          *)
MaxNameParams == 2

NameOperationIds == {<<"g", " ", "u">>, <<"1", "a">>, <<"a", ".", "b", "-", "c">>}

NamePaths ==
    {<<"/">>, <<"/", "a", " ", "b">>, <<"/", "1", "/", "{", "x", ".", "y", "}">>,
     <<"/", "A", "-", "b", "/", "{", "c", "-", "D", "}">>}

NameWireNames ==
    {<<"o", "k">>, <<"a", " ", "b">>, <<"1", "x">>, <<"x", ".", "y">>, <<"x", "-", "y">>,
     <<"x", "_", "y">>}

NameParams ==
    {[name |-> n, in |-> l] : n \in NameWireNames, l \in {in_query, in_header}}
    \cup {[name |-> EmptyStr, in |-> in_query]}

NameOperations ==
    {[parameters |-> ps] : ps \in SeqsUpTo(NameParams, MaxNameParams)}
    \cup {[operationId |-> id, parameters |-> ps] :
            id \in NameOperationIds, ps \in SeqsUpTo(NameParams, MaxNameParams)}

InitNames ==
    \E p \in NamePaths, op \in NameOperations :
        Start(<<[path |-> p, path_level_params |-> <<>>, method |-> s_get,
                 operation |-> op]>>)


(* Path-level and operation-level parameter lists over the same names and *)
(* locations, each parameter described by the level that declares it, and *)
(* a parameter without location and one without name.                     *)
MaxMergeParams == 2

MergeParams(level) ==
    {[name |-> n, in |-> l, description |-> level] :
        n \in {s_id, s_tag}, l \in {in_query, in_header}}
    \cup {[name |-> s_id, description |-> level],
           [in |-> in_query, description |-> level]}

InitMerge ==
    \E pl \in SeqsUpTo(MergeParams("path-level"), MaxMergeParams),
       ol \in SeqsUpTo(MergeParams("operation-level"), MaxMergeParams) :
        Start(<<[path |-> p_users, path_level_params |-> pl, method |-> s_get,
                 operation |-> [summary |-> "s", parameters |-> ol]]>>)


(* One operation whose parameters carry every kind of schema: none, each  *)
(* OpenAPI type, an unknown type, a nullable anyOf, properties without     *)
(* type, a reference without type; with and without summary, description. *)
MaxTypedParams == 2

ParamSchemas ==
    {[type |-> t] : t \in {"string", "integer", "number", "boolean", "array", "object",
                            "file"}}
    \cup {[anyOf |-> <<[type |-> "null"], [type |-> "integer"]>>],
           [anyOf |-> <<[type |-> "boolean"], [type |-> "null"]>>],
           [properties |-> [a |-> [type |-> "string"]]],
           ("$ref" :> "#/components/schemas/A")}

TypedNames == <<s_id, s_tag, s_limit>>

TypedParams ==
    {[name |-> TypedNames[j], in |-> in_query] : j \in 1..MaxTypedParams}
    \cup {[name |-> TypedNames[j], in |-> in_query, schema |-> sch] :
            j \in 1..MaxTypedParams, sch \in ParamSchemas}

(* the j-th parameter has the j-th name, so that no two share a key *)
TypedParamLists ==
    {ps \in SeqsUpTo(TypedParams, MaxTypedParams) :
        \A j \in 1..Len(ps) : ps[j].name = TypedNames[j]}

ManifestOperations ==
    UNION {{[parameters |-> ps],
            [parameters |-> ps, summary |-> "summary"],
            [parameters |-> ps, description |-> "description"],
            [parameters |-> ps, summary |-> "summary", description |-> "description"]} :
           ps \in TypedParamLists}

InitManifest ==
    \E op \in ManifestOperations :
        Start(<<[path |-> p_users, path_level_params |-> <<>>, method |-> s_get,
                 operation |-> op]>>)


(* Schemas of several operations whose parameters collide inside an       *)
(* operation and across operations.                                       *)
MaxIndepParams == 2

MaxIndepOps == 2

IndepParams ==
    {[name |-> s_id, in |-> in_query], [name |-> s_id, in |-> in_header],
     [name |-> s_id_query, in |-> in_query, required |-> TRUE]}

IndepEntries ==
    {[path |-> p, path_level_params |-> <<>>, method |-> s_get,
      operation |-> [parameters |-> ps]] :
        p \in {p_users, p_a_hyphen_b}, ps \in SeqsUpTo(IndepParams, MaxIndepParams)}

InitIndep ==
    \E s \in SeqsUpTo(IndepEntries, MaxIndepOps) : DictOrder(s) /\ Start(s)


(* One GET operation on a path with a placeholder, to be called: the path *)
(* parameter alone, after a query parameter of the same name, and with a  *)
(* hyphen in its wire name.                                               *)
MaxUrlParams == 2

s_user_hyphen_id == <<"u","s","e","r","-","i","d">>

p_users_id == p_users \o <<"/","{">> \o s_id \o <<"}">>

p_users_hyphen == p_users \o <<"/","{">> \o s_user_hyphen_id \o <<"}">>

UrlParams ==
    {[name |-> s_id, in |-> in_path, required |-> TRUE],
     [name |-> s_id, in |-> in_path],
     [name |-> s_user_hyphen_id, in |-> in_path, required |-> TRUE],
     [name |-> s_id, in |-> in_query],
     [name |-> s_user_id, in |-> in_query]}

InitUrl ==
    \E p \in {p_users_id, p_users_hyphen}, ps \in SeqsUpTo(UrlParams, MaxUrlParams) :
        Start(<<[path |-> p, path_level_params |-> <<>>, method |-> s_get,
                 operation |-> [operationId |-> <<"o","p">>, parameters |-> ps]]>>)


(* Schemas that differ in their servers only, for a client to construct. *)
InitConstruct ==
    \E doc \in {EmptyDict} \cup {[servers |-> sv] : sv \in ServerLists} :
        StartDocument(<<[path |-> p_users, path_level_params |-> <<>>, method |-> s_get,
                         operation |-> [summary |-> "s"]]>>, doc)


(* Schemas of several operations, some malformed: an empty or null        *)
(* operationId, a null parameter list, a null operation, a request body   *)
(* that is a string.                                                      *)
MaxMalformedOps == 2

MalformedOperations ==
    {[summary |-> "s"],
     [operationId |-> <<"o", "p">>, parameters |-> <<>>],
     [operationId |-> EmptyStr],
     [operationId |-> None],
     [parameters |-> None],
     [requestBody |-> [py_str |-> <<"x">>]],
     None}

MalformedEntries ==
    {[path |-> p, path_level_params |-> <<>>, method |-> s_get, operation |-> op] :
        p \in {p_users, p_a_hyphen_b}, op \in MalformedOperations}

InitMalformed ==
    \E s \in SeqsUpTo(MalformedEntries, MaxMalformedOps) : DictOrder(s) /\ Start(s)


(* Paths handed to load_schema: file names with the supported suffixes in *)
(* either case, other suffixes, none, a leading and a trailing dot, two   *)
(* dots; nothing, a directory or a file at the path.                      *)
FileNames ==
    {<<"s">> \o x_yaml, <<"s">> \o x_yml, <<"s">> \o x_json,
     <<"s", ".", "Y", "A", "M", "L">>, <<"s", ".", "J", "s", "o", "n">>,
     <<"s", ".", "t", "x", "t">>, <<"s">>, x_json, <<"s", ".">>,
     <<"s">> \o x_json \o <<".", "b", "a", "k">>, <<"s", ".", "b">> \o x_yml}

FileTexts == {t_empty, t_flow_map, t_block_map, t_number_list, t_unclosed}

FilePaths ==
    {[name |-> n, kind |-> k] : n \in FileNames, k \in {"missing", "directory"}}
    \cup {[name |-> n, kind |-> "file", text |-> t] : n \in FileNames, t \in FileTexts}

InitLoad ==
    /\ \E p \in FilePaths : file = [path |-> p]
    /\ schema = <<>>
    /\ document = EmptyDict
    /\ env = DefaultEnv
    /\ stage = "file"
    /\ idx = 1
    /\ methods = <<>>
    /\ tools = <<>>
    /\ warnings = <<>>
    /\ emitted = <<>>
    /\ client = EmptyDict
    /\ instance = NoInstance
    /\ call = NoCall

(* Applications and APIs: the base class's _get_headers, an override that *)
(* returns credential headers, one that raises; a status of each class.   *)
MaxHttpParams == 2

s_accept == <<"A", "c", "c", "e", "p", "t">>

s_authorization == <<"A", "u", "t", "h", "o", "r", "i", "z", "a", "t", "i", "o", "n">>

CredentialHeaders == (s_authorization :> "'Bearer t'") @@ (s_accept :> "'json'")

Apps ==
    {BaseApp,
     [raised |-> "", headers |-> CredentialHeaders],
     [raised |-> "NotAuthorizedError", headers |-> EmptyDict]}

Statuses == {200, 204, 399, 400, 404, 500}

Envs == {[get_headers |-> a, status |-> st] : a \in Apps, st \in Statuses}

HttpParams ==
    {[name |-> s_accept, in |-> in_header],
     [name |-> s_limit, in |-> in_query]}

HttpOperations == {[parameters |-> ps] : ps \in SeqsUpTo(HttpParams, MaxHttpParams)}

InitHttp ==
    \E op \in HttpOperations, m \in {s_get, s_post}, e \in Envs :
        StartIn(<<[path |-> p_users, path_level_params |-> <<>>, method |-> m,
                   operation |-> op]>>, EmptyDict, e)

---------------------------------------------------------------------------
(* Specifications                                                          *)

Next == GenerateOperation \/ Assemble

NextRun == GenerateOperation \/ Assemble \/ Invoke

NextConstruct == GenerateOperation \/ Assemble \/ Construct

NextHttp == GenerateOperation \/ Assemble \/ Invoke \/ CallHelper

NextLoad == LoadSchema

Spec == Init /\ [][Next]_vars

SpecClient == InitClient /\ [][Next]_vars

SpecRun == InitRun /\ [][NextRun]_vars

SpecDocument == InitDocument /\ [][Next]_vars

SpecHttp == InitHttp /\ [][NextHttp]_vars

SpecLoad == InitLoad /\ [][NextLoad]_vars

SpecMalformed == InitMalformed /\ [][Next]_vars

SpecConstruct == InitConstruct /\ [][NextConstruct]_vars

SpecUrl == InitUrl /\ [][NextRun]_vars

SpecIndep == InitIndep /\ [][Next]_vars

SpecManifest == InitManifest /\ [][Next]_vars

SpecMerge == InitMerge /\ [][Next]_vars

SpecNames == InitNames /\ [][Next]_vars

---------------------------------------------------------------------------
(* Properties                                                              *)

(* the methods and tools appended by the schema entries before entry i+1 *)
RECURSIVE MethodsUpTo(_)
MethodsUpTo(i) == IF i = 0 THEN 0 ELSE MethodsUpTo(i - 1) + emitted[i].methods

RECURSIVE ToolsUpTo(_)
ToolsUpTo(i) == IF i = 0 THEN 0 ELSE ToolsUpTo(i - 1) + emitted[i].tools

(* the schema entries that were compiled into a method and a tool *)
Compiled == {i \in 1..Len(emitted) : emitted[i].methods = 1 /\ emitted[i].tools = 1}

MethodOf(i) == methods[MethodsUpTo(i)]

ToolOf(i) == tools[ToolsUpTo(i)]

(* C1: in every generated method signature the argument names, the request *)
(* body argument included, are pairwise distinct.                          *)
C1_ArgNamesDistinct ==
    \A k \in 1..Len(methods) :
        \A i, j \in 1..Len(methods[k].args) :
            i # j => methods[k].args[i].arg_name # methods[k].args[j].arg_name

(* a method of three parameters and a body in which a parameter collided   *)
(* twice and took the counter suffix                                       *)
C1_Witness ==
    \E k \in 1..Len(methods) :
        /\ Len(methods[k].args) = 4
        /\ methods[k].has_body
        /\ \E i \in 1..3 :
              LET a == methods[k].args[i].arg_name
              IN  a[Len(a)] = "2"

(* C2: the keys of the tool manifest's properties are the compiled         *)
(* argument names, one key per argument of the method.                     *)
C2_ManifestKeysAreArgNames ==
    \A i \in Compiled :
        LET props == ToolOf(i).parameters.properties
        IN  /\ \A a \in ArgNames(MethodOf(i)) : a \in DOMAIN props
            /\ Cardinality(DOMAIN props) = Len(MethodOf(i).args)

(* C3: every parameter located in the path is compiled as a required       *)
(* argument: no default in the signature, and listed in the manifest's     *)
(* required list, whatever its declared flag.                              *)
C3_PathParamsRequired ==
    \A i \in Compiled :
        \A k \in 1..Len(MethodOf(i).path_params) :
            LET arg_name == MethodOf(i).path_params[k][2]
                tool_params == ToolOf(i).parameters
            IN  /\ \A a \in 1..Len(MethodOf(i).args) :
                      MethodOf(i).args[a].arg_name = arg_name
                          => ~MethodOf(i).args[a].has_default
                /\ "required" \in DOMAIN tool_params
                /\ arg_name \in Range(tool_params.required)

(* the arguments C4 calls required: every path argument, and every query  *)
(* and body argument compiled without a default                           *)
PathArgs(m) == {m.path_params[k][2] : k \in 1..Len(m.path_params)}

QueryArgs(m) == {m.query_params[k][2] : k \in 1..Len(m.query_params)}

NoDefaultArgs(m) == {m.args[k].arg_name : k \in {j \in 1..Len(m.args) : ~m.args[j].has_default}}

MustBeGiven(m) ==
    PathArgs(m)
    \cup (NoDefaultArgs(m) \cap (QueryArgs(m) \cup (IF m.has_body THEN {m.body_arg_name} ELSE {})))

(* C4: a call (of a method whose signature is accepted) that leaves a      *)
(* required path, query or body argument absent raises the                *)
(* missing-required-parameter error before the verb helper is called, and *)
(* for a parameter the error names the argument and its wire name.        *)
C4_MissingRequiredRaises ==
    (/\ stage = "called"
     /\ call.outcome.raised # "SyntaxError"
     /\ \E a \in MustBeGiven(call.method) : call.vals[a] = "None")
    => /\ call.outcome.raised = "ValueError"
       /\ ~call.outcome.dispatched
       /\ call.outcome.message.kind = "parameter"
            => /\ call.outcome.message.arg_name \in MustBeGiven(call.method)
               /\ call.vals[call.outcome.message.arg_name] = "None"
               /\ <<call.outcome.message.original, call.outcome.message.arg_name>>
                     \in Range(call.method.path_params \o call.method.query_params
                                \o call.method.header_params)

(* the wire names of the arguments of one location that were given a value *)
Provided(items, vals) == {items[k][1] : k \in {j \in 1..Len(items) : vals[items[j][2]] # "None"}}

MapIsProvided(map, items, vals) ==
    /\ DOMAIN map = Provided(items, vals)
    /\ \A k \in 1..Len(items) :
          vals[items[k][2]] # "None" => map[items[k][1]] = vals[items[k][2]]

(* C5: the query map and the header map a generated method builds hold     *)
(* wire name -> value for exactly the query and header arguments that were *)
(* given: only an absent (None) argument is dropped; 0, False and '' pass.  *)
C5_MapsHoldProvided ==
    (stage = "called" /\ call.outcome.maps_built)
    => /\ MapIsProvided(call.outcome.query_params, call.method.query_params, call.vals)
       /\ MapIsProvided(call.outcome.header_params, call.method.header_params, call.vals)

(* a request that went out with a falsy query value and a falsy header value *)
C5_Witness ==
    /\ stage = "called"
    /\ call.outcome.raised = ""
    /\ call.outcome.request.verb = s_get
    /\ s_limit \in DOMAIN call.outcome.request.params
    /\ call.outcome.request.params[s_limit] = "0"
    /\ s_tag \in DOMAIN call.outcome.request.headers
    /\ call.outcome.request.headers[s_tag] = "''"

(* the media type the precedence of the data model selects from content *)
SelectedMediaType(content) ==
    IF "application/json" \in Keys(content) THEN "application/json"
    ELSE IF "application/x-www-form-urlencoded" \in Keys(content)
    THEN "application/x-www-form-urlencoded"
    ELSE IF "multipart/form-data" \in Keys(content) THEN "multipart/form-data"
    ELSE content[1][1]

(* how a body of a media type is to be sent, and how httpx sends the body *)
(* it is given under a keyword                                            *)
EncodingOfMediaType(media_type) ==
    CASE media_type = "application/json" -> "json"
      [] media_type = "application/x-www-form-urlencoded" -> "form"
      [] media_type = "multipart/form-data" -> "multipart"
      [] OTHER -> "raw"

EncodingOfKeyword(keyword) ==
    CASE keyword = "json" -> "json"
      [] keyword = "data" -> "form"
      [] keyword = "files" -> "multipart"
      [] OTHER -> "raw"

BodyKeywords(m) ==
    {m.request_args[k].keyword :
        k \in {j \in 1..Len(m.request_args) : m.request_args[j].value = "json_body"}}

(* C6: the body is sent in the encoding of the media type selected by the  *)
(* precedence json > form-urlencoded > multipart > first declared.         *)
C6_BodySentPerMediaType ==
    \A i \in Compiled :
        LET content == BodyContent(schema[i].operation)
        IN  (MethodOf(i).has_body /\ content # <<>>)
            => \A kw \in BodyKeywords(MethodOf(i)) :
                  EncodingOfKeyword(kw) = EncodingOfMediaType(SelectedMediaType(content))

(* C7: the helper the emitted call names exists on APIApplication and      *)
(* accepts every keyword the call passes.                                  *)
C7_DispatchMatchesBaseClass ==
    \A k \in 1..Len(methods) :
        /\ methods[k].http_verb \in Keys(BaseHelpers)
        /\ KeywordsOf(methods[k].request_args)
              \subseteq Range(Lookup(BaseHelpers, methods[k].http_verb, <<>>))

(* an operation the generator compiles: one of its seven verbs, and not an *)
(* empty operationId                                                      *)
HasEmptyOperationId(operation) ==
    "operationId" \in DOMAIN operation /\ operation.operationId = EmptyStr

IsCompilable(entry) ==
    /\ \E verb \in HttpVerbs : Lower(entry.method) = verb
    /\ ~HasEmptyOperationId(entry.operation)

C9_FunctionNamesDistinct ==
    \A i, j \in Compiled :
        (/\ i # j
         /\ ("operationId" \in DOMAIN schema[i].operation
             /\ "operationId" \in DOMAIN schema[j].operation)
                => schema[i].operation.operationId # schema[j].operation.operationId)
        => MethodOf(i).func_name # MethodOf(j).func_name

(* The identifier normalizer of the component design (4.2): characters    *)
(* that are invalid in an identifier become '_', a marker is prefixed to   *)
(* an empty result or a leading digit, an underscore is put before each    *)
(* uppercase letter that follows a lowercase letter or a digit, the whole  *)
(* is lowercased, leading underscores are dropped, and an empty result is  *)
(* the sentinel name.                                                      *)
IdentifierChars == Range(Uppers) \cup Range(Lowers) \cup Range(Digits) \cup {"_"}

RECURSIVE Flatten(_)
Flatten(pieces) == IF pieces = <<>> THEN <<>> ELSE Head(pieces) \o Flatten(Tail(pieces))

toIdentifier(raw) ==
    LET valid == [k \in 1..Len(raw) |-> IF raw[k] \in IdentifierChars THEN raw[k] ELSE "_"]
        marked == IF valid = <<>> \/ valid[1] \in Range(Digits)
                  THEN <<"o","p","_">> \o valid ELSE valid
        snake == Flatten([k \in 1..Len(marked) |->
                    IF /\ marked[k] \in Range(Uppers)
                       /\ k > 1
                       /\ marked[k - 1] \in Range(Lowers) \cup Range(Digits)
                    THEN <<"_", LowerChar(marked[k])>>
                    ELSE <<LowerChar(marked[k])>>])
        stripped == LStrip(snake, "_")
    IN  IF stripped = <<>>
        THEN <<"u","n","n","a","m","e","d","_","o","p","e","r","a","t","i","o","n">>
        ELSE stripped

(* the non-empty segments of a path *)
Segments(path) ==
    LET NonEmpty(seg) == seg # <<>>
    IN  SelectSeq(Split(path, "/"), NonEmpty)

IsParamSegment(seg) == Len(seg) >= 2 /\ seg[1] = "{" /\ seg[Len(seg)] = "}"

(* method and path tokens joined with underscores, each token normalized  *)
(* by Normalize                                                           *)
TokensName(path, method, Normalize(_)) ==
    LET segs == Segments(path)
    IN  Join(<<Lower(method)>>
             \o [k \in 1..Len(segs) |->
                    IF IsParamSegment(segs[k])
                    THEN <<"b","y","_">> \o Normalize(SubSeq(segs[k], 2, Len(segs[k]) - 1))
                    ELSE Normalize(segs[k])],
             <<"_">>)

DotsAndHyphensToUnderscores(id) ==
    [k \in 1..Len(id) |-> IF id[k] \in {".", "-"} THEN "_" ELSE id[k]]

LowercasedHyphensToUnderscores(token) ==
    [k \in 1..Len(token) |-> IF token[k] = "-" THEN "_" ELSE LowerChar(token[k])]

---------------------------------------------------------------------------
(* Class name and base URL                                                 *)

Separators == {" ", "-", "_"}

Letters == Range(Uppers) \cup Range(Lowers)

(* the positions of a title at which a word starts *)
WordStarts(title) ==
    {k \in 1..Len(title) :
        title[k] \notin Separators /\ (k = 1 \/ title[k - 1] \in Separators)}

(* the number of characters of title[1..k] that are not separators *)
KeptUpTo(title, k) == Cardinality({j \in 1..k : title[j] \notin Separators})

HasTitle == "info" \in DOMAIN document /\ "title" \in DOMAIN document.info

(* C19: the class name derived from info.title is a valid identifier: only *)
(* letters, digits and underscores, never empty, never starting with a    *)
(* digit or an underscore; it is the default name when the title has no   *)
(* letter or digit, carries the prefix Api when the title's first kept    *)
(* character is a digit, and in a title of letters and separators every   *)
(* word starts with an upper-case letter in the class name.               *)
C19_ClassNameIsIdentifier ==
    (stage = "assembled" /\ HasTitle) =>
        LET title == document.info.title
            name == client.class_name
            kept == SelectSeq(title, IsAlnum)
        IN  /\ name # <<>>
            /\ \A k \in 1..Len(name) : name[k] \in Letters \cup Range(Digits) \cup {"_"}
            /\ name[1] \in Letters
            /\ kept = <<>> => name = s_default_class_name
            /\ (kept # <<>> /\ kept[1] \in Range(Digits)) =>
                   (Len(name) = Len(kept) + 3 /\ SubSeq(name, 1, 3) = s_Api)
            /\ (\A k \in 1..Len(title) : title[k] \in Letters \cup Separators) =>
                   \A k \in WordStarts(title) :
                       name[KeptUpTo(title, k)] = UpperChar(title[k])

(* a title of two words, the first starting with a digit *)
C19_Witness ==
    /\ stage = "assembled"
    /\ HasTitle
    /\ document.info.title = <<"1", " ", "a">>
    /\ client.class_name = <<"A", "p", "i", "1", "A">>

(* text with every {variable} placeholder removed *)
RECURSIVE StripPlaceholders(_, _)
StripPlaceholders(url, inside) ==
    IF url = <<>> THEN <<>>
    ELSE IF Head(url) = "{" THEN StripPlaceholders(Tail(url), TRUE)
    ELSE IF Head(url) = "}" /\ inside THEN StripPlaceholders(Tail(url), FALSE)
    ELSE IF inside THEN StripPlaceholders(Tail(url), TRUE)
    ELSE <<Head(url)>> \o StripPlaceholders(Tail(url), FALSE)

HasServerUrl ==
    /\ "servers" \in DOMAIN document
    /\ document.servers # <<>>
    /\ "url" \in DOMAIN document.servers[1]

(* C20: the base URL of a client built without an override is the url of  *)
(* the first server with its {variable} placeholders removed and its       *)
(* trailing slashes trimmed.                                              *)
C20_BaseUrlStripsPlaceholders ==
    (stage = "assembled" /\ HasServerUrl) =>
        ResolvedBaseUrl(EmptyStr, client.api_base_url)
            = RStrip(StripPlaceholders(document.servers[1].url, FALSE), "/")

---------------------------------------------------------------------------
(* Identifiers                                                             *)

IsIdentifier(name) ==
    /\ name # <<>>
    /\ \A k \in 1..Len(name) : name[k] \in Letters \cup Range(Digits) \cup {"_"}
    /\ name[1] \notin Range(Digits)

(* C11: every function name and every argument name of an emitted method  *)
(* is a valid bare identifier: not empty, only letters, digits and         *)
(* underscores, not starting with a digit.                                *)
C11_NamesAreIdentifiers ==
    \A k \in 1..Len(methods) :
        /\ IsIdentifier(methods[k].func_name)
        /\ \A a \in ArgNames(methods[k]) : IsIdentifier(a)

(* the token a path segment contributes to a synthesized function name *)
SegmentToken(segment) == Lower(Concat(NamePart(segment)))

(* the argument name of a wire name that collides with nothing *)
WireNameToArgName(param_name) == UniqueArgName(param_name, in_query, {})

(* C12: the normalization the generator applies to an operationId, to a   *)
(* path segment and to a parameter wire name is idempotent: applied to    *)
(* its own output it returns that output.                                 *)
C12_NormalizationIdempotent ==
    \A i \in 1..Len(emitted) :
        LET entry == schema[i]
            segments == Split(Strip(entry.path, "/"), "/")
            params == Get(entry.operation, "parameters", <<>>)
        IN  /\ (i \in Compiled /\ "operationId" \in DOMAIN entry.operation) =>
                   FuncName(entry.path, entry.method,
                            [operationId |-> MethodOf(i).func_name])
                       = MethodOf(i).func_name
            /\ \A k \in 1..Len(segments) :
                   SegmentToken(SegmentToken(segments[k])) = SegmentToken(segments[k])
            /\ \A k \in 1..Len(params) :
                   WireNameToArgName(WireNameToArgName(params[k].name))
                       = WireNameToArgName(params[k].name)

(* an operation whose operationId holds a dot and a hyphen, on a path     *)
(* with a {parameter} segment, with a hyphenated wire name                *)
C12_Witness ==
    \E i \in Compiled :
        /\ "operationId" \in DOMAIN schema[i].operation
        /\ schema[i].operation.operationId = <<"a", ".", "b", "-", "c">>
        /\ MethodOf(i).func_name = <<"a", "_", "b", "_", "c">>
        /\ \E k \in 1..Len(schema[i].path) : schema[i].path[k] = "{"
        /\ \E k \in 1..Len(schema[i].operation.parameters) :
               schema[i].operation.parameters[k].name = <<"x", "-", "y">>

---------------------------------------------------------------------------
(* Merging path-level and operation-level parameters                       *)

(* the (name, location) pairs of the parameters of a list that have both *)
KeysOf(params) ==
    {<<params[k].name, params[k]["in"]>> :
        k \in {j \in 1..Len(params) : {"name", "in"} \subseteq DOMAIN params[j]}}

(* the <<wire name, argument name>> pairs the method sends in a location *)
LocationMap(method_code, location) ==
    CASE location = in_path   -> method_code.path_params
      [] location = in_query  -> method_code.query_params
      [] location = in_header -> method_code.header_params

(* C13: the merged parameter list holds exactly one parameter for each    *)
(* (name, location) that the path level or the operation declares; it is  *)
(* the operation's parameter when the operation declares that pair, the   *)
(* path level's otherwise; the same name in two locations is kept twice.  *)
C13_MergeByNameAndLocation ==
    \A i \in Compiled :
        LET path_keys == KeysOf(schema[i].path_level_params)
            operation_keys == KeysOf(schema[i].operation.parameters)
        IN  /\ Len(MethodOf(i).args) = Cardinality(path_keys \cup operation_keys)
            /\ \A key \in path_keys \cup operation_keys :
                   LET sent == LocationMap(MethodOf(i), key[2])
                       at == {k \in 1..Len(sent) : sent[k][1] = key[1]}
                   IN  /\ Cardinality(at) = 1
                       /\ \A k \in at :
                              ToolOf(i).parameters.properties[sent[k][2]].description
                                  = IF key \in operation_keys THEN "operation-level"
                                    ELSE "path-level"

(* the operation overrides one path-level parameter and the path level    *)
(* declares the same name in the other location                           *)
C13_Witness ==
    \E i \in Compiled :
        LET path_keys == KeysOf(schema[i].path_level_params)
            operation_keys == KeysOf(schema[i].operation.parameters)
        IN  /\ <<s_id, in_query>> \in path_keys \cap operation_keys
            /\ <<s_id, in_header>> \in path_keys \ operation_keys
            /\ Len(MethodOf(i).args) = 2

---------------------------------------------------------------------------
(* The manifest entry of an operation                                      *)

(* C14: every manifest entry carries the function name under `name` and   *)
(* under `description` the operation's summary, else its description,     *)
(* else the function name.                                                *)
C14_ManifestNameDescription ==
    \A i \in Compiled :
        LET operation == schema[i].operation
            tool == ToolOf(i)
        IN  /\ "name" \in DOMAIN tool
            /\ tool.name = MethodOf(i).func_name
            /\ "description" \in DOMAIN tool
            /\ tool.description =
                  IF "summary" \in DOMAIN operation THEN operation.summary
                  ELSE IF "description" \in DOMAIN operation THEN operation.description
                  ELSE MethodOf(i).func_name

(* a schema that is an anyOf of the null type and one other variant *)
IsNullable(param_schema) ==
    /\ "anyOf" \in DOMAIN param_schema
    /\ "type" \notin DOMAIN param_schema
    /\ Len(param_schema.anyOf) = 2
    /\ \E k \in 1..2 : param_schema.anyOf[k] = [type |-> "null"]
    /\ \E k \in 1..2 : param_schema.anyOf[k] # [type |-> "null"]

ConcreteVariant(param_schema) ==
    param_schema.anyOf[CHOOSE k \in 1..2 : param_schema.anyOf[k] # [type |-> "null"]]

(* the manifest property and the signature entry of the j-th parameter *)
PropertyOf(i, j) == ToolOf(i).parameters.properties[MethodOf(i).args[j].arg_name]

(* C17: a parameter whose schema is an anyOf of the null type and one     *)
(* concrete variant has the concrete variant's type, in the manifest and  *)
(* in the signature.                                                      *)
C17_NullableResolvesToConcrete ==
    \A i \in Compiled :
        \A j \in 1..Len(schema[i].operation.parameters) :
            LET param == schema[i].operation.parameters[j]
            IN  ("schema" \in DOMAIN param /\ IsNullable(param.schema)) =>
                   /\ PropertyOf(i, j).type = ConcreteVariant(param.schema).type
                   /\ MethodOf(i).args[j].py_type
                          = openapi_type_to_python(ConcreteVariant(param.schema).type)

(* the type tag of a schema *)
TypeTag(param_schema) ==
    IF "type" \in DOMAIN param_schema
          /\ param_schema.type \in {"string", "integer", "number", "boolean", "array",
                                     "object"}
    THEN param_schema.type
    ELSE IF "type" \notin DOMAIN param_schema
            /\ ("properties" \in DOMAIN param_schema \/ "$ref" \in DOMAIN param_schema)
    THEN "object"
    ELSE "string"

(* C18: the type the manifest gives a parameter is the tag of its schema: *)
(* each of the six OpenAPI types is its own tag, a schema with properties *)
(* or a reference and no type is an object, anything else is a string.    *)
C18_ManifestTypeIsTag ==
    \A i \in Compiled :
        \A j \in 1..Len(schema[i].operation.parameters) :
            LET param == schema[i].operation.parameters[j]
            IN  (~IsNullable(Get(param, "schema", EmptyDict))) =>
                   PropertyOf(i, j).type = TypeTag(Get(param, "schema", EmptyDict))

(* the arguments of the method that have no default *)
RequiredArgNames(method_code) ==
    {method_code.args[k].arg_name :
        k \in {j \in 1..Len(method_code.args) : ~method_code.args[j].has_default}}

(* C15: the manifest's required list holds exactly the method's required  *)
(* argument names, the body argument included when the body is required,  *)
(* and the key is absent exactly when no argument is required.            *)
C15_RequiredListsRequiredArgs ==
    \A i \in Compiled :
        LET tool_params == ToolOf(i).parameters
        IN  /\ "required" \notin DOMAIN tool_params <=> RequiredArgNames(MethodOf(i)) = {}
            /\ "required" \in DOMAIN tool_params =>
                   Range(tool_params.required) = RequiredArgNames(MethodOf(i))

(* C16: no name appears twice in the manifest's required list (the order  *)
(* of the list is not constrained here).                                  *)
C16_RequiredIsSet ==
    \A i \in Compiled :
        LET tool_params == ToolOf(i).parameters
        IN  "required" \in DOMAIN tool_params =>
               \A j, k \in 1..Len(tool_params.required) :
                   j # k => tool_params.required[j] # tool_params.required[k]

---------------------------------------------------------------------------
(* The order of the signature                                              *)

(* C29: in every generated signature no argument without a default comes  *)
(* after an argument with a default.                                      *)
C29_NoRequiredAfterOptional ==
    \A k \in 1..Len(methods) :
        \A i, j \in 1..Len(methods[k].args) :
            (i < j /\ methods[k].args[i].has_default) => methods[k].args[j].has_default

(* C22: a schema with zero paths is compiled without error into a client  *)
(* with no generated method whose list_tools returns the empty list.      *)
C22_ZeroPathsEmptyClient ==
    schema = <<>> =>
        /\ methods = <<>> /\ tools = <<>> /\ warnings = <<>>
        /\ stage = "paths" => ENABLED Assemble
        /\ stage = "assembled" =>
               (client.members = EmptyDict /\ client.list_tools = <<>>)

C22_Witness == schema = <<>> /\ stage = "assembled" /\ client.list_tools = <<>>

---------------------------------------------------------------------------
(* Independence of the operations                                          *)

---------------------------------------------------------------------------
(* The URL of a call                                                       *)

(* the path template with each {wire name} replaced by the text of the    *)
(* value of the argument resolved for the path parameter of that name     *)
RECURSIVE SubstitutePath(_, _, _)
SubstitutePath(chars, path_params, vals) ==
    IF chars = <<>> THEN <<>>
    ELSE IF Head(chars) = "{"
    THEN LET close == IndexOf(chars, "}")
             wire == SubSeq(chars, 2, close - 1)
         IN  StrOf(vals[Lookup(path_params, wire, <<>>)])
                 \o SubstitutePath(SubSeq(chars, close + 1, Len(chars)), path_params, vals)
    ELSE <<Head(chars)>> \o SubstitutePath(Tail(chars), path_params, vals)

(* the wire names between braces in a path template *)
PlaceholdersOf(path) ==
    {SubSeq(path, i + 1, j - 1) :
        <<i, j>> \in {<<a, b>> \in (1..Len(path)) \X (1..Len(path)) :
                        /\ a < b /\ path[a] = "{" /\ path[b] = "}"
                        /\ \A k \in (a + 1)..(b - 1) : path[k] \notin {"{", "}"}}}

(* C28: when every placeholder of the path names a declared path          *)
(* parameter, the signature is accepted and no required argument is       *)
(* missing, the method builds the URL of the path template with each      *)
(* {wire name} replaced by the value of that parameter's argument.        *)
C28_UrlSubstitutesPathArguments ==
    (/\ stage = "called"
     /\ PlaceholdersOf(call.method.path) \subseteq Keys(call.method.path_params)
     /\ call.outcome.raised \notin {"SyntaxError", "ValueError"}) =>
        /\ call.outcome.raised = ""
        /\ call.outcome.url
              = SubstitutePath(call.method.path, call.method.path_params, call.vals)

---------------------------------------------------------------------------
(* Construction of the client                                              *)

(* C21 as stated: every supplied base URL argument is the resolved base   *)
(* URL, and the schema-derived one is used when none is supplied.         *)
C21_SuppliedBaseUrlOverrides ==
    stage = "constructed" =>
        IF instance.argument.supplied
        THEN instance.api_base_url = instance.argument.value
        ELSE instance.api_base_url = client.api_base_url

(* C21, amended: a supplied non-empty base URL argument is the resolved   *)
(* base URL; with no argument, or an empty one, it is the schema-derived  *)
(* base URL.                                                              *)
C21_NonEmptyBaseUrlOverrides ==
    stage = "constructed" =>
        IF instance.argument.supplied /\ instance.argument.value # EmptyStr
        THEN instance.api_base_url = instance.argument.value
        ELSE instance.api_base_url = client.api_base_url

(* an argument that differs from the URL the schema gives *)
C21_Witness ==
    /\ stage = "constructed"
    /\ instance.argument.supplied
    /\ instance.argument.value = <<"h", "/">>
    /\ client.api_base_url = u_example
    /\ instance.api_base_url = <<"h", "/">>

---------------------------------------------------------------------------
(* Malformed input                                                         *)

(* the parameters of a list that lack a name or a location *)
InvalidParams(params) ==
    {params[k] : k \in {j \in 1..Len(params) : ~({"name", "in"} \subseteq DOMAIN params[j])}}

(* C23: an operation that declares a parameter without name or location   *)
(* is still compiled, the parameter gives no argument and no manifest     *)
(* property, and a warning is recorded for it.                            *)
C23_InvalidParamSkippedWithWarning ==
    \A i \in 1..Len(emitted) :
        LET path_params == schema[i].path_level_params
            operation_params == schema[i].operation.parameters
            keys == KeysOf(path_params) \cup KeysOf(operation_params)
        IN  /\ i \in Compiled
            /\ Len(MethodOf(i).args) = Cardinality(keys)
            /\ Cardinality(DOMAIN ToolOf(i).parameters.properties) = Cardinality(keys)
            /\ \A p \in InvalidParams(path_params) \cup InvalidParams(operation_params) :
                   \E w \in 1..Len(warnings) :
                       warnings[w].kind = "parameter" /\ warnings[w].param = p

(* an operation the loop body compiles without raising and without        *)
(* skipping it                                                            *)
WellFormed(entry) ==
    /\ Raises(entry) = ""
    /\ ~("operationId" \in DOMAIN entry.operation
          /\ entry.operation.operationId = EmptyStr)

(* C24: a malformed operation never ends the run, and every well-formed   *)
(* operation of the schema is compiled into its method and manifest entry. *)
C24_MalformedOperationIsolated ==
    /\ stage # "aborted"
    /\ \A i \in 1..Len(emitted) : WellFormed(schema[i]) => i \in Compiled
    /\ stage = "assembled" => Len(emitted) = Len(schema)

---------------------------------------------------------------------------
(* Loading the schema file                                                 *)

SupportedSuffixes == {x_yaml, x_yml, x_json}

(* what load_schema has to do with a file of a supported suffix *)
ParsedAs(suffix, text) == IF suffix = x_json THEN JsonLoad(text) ELSE YamlSafeLoad(text)

LoadedAsStated(suffix) ==
    LET path == file.path
        outcome == file.outcome
    IN  IF path.kind # "file"
        THEN outcome.raised = "FileNotFoundError"
        ELSE IF suffix \notin SupportedSuffixes
        THEN /\ outcome.raised = "ValueError"
             /\ outcome.message.text = "Unsupported schema file type"
        ELSE IF ParsedAs(suffix, path.text).error # ""
        THEN /\ outcome.raised = "ValueError"
             /\ outcome.message.text = "Error parsing schema file"
             /\ outcome.message.path = path.name
             /\ outcome.message.cause = ParsedAs(suffix, path.text).error
        ELSE /\ outcome.raised = ""
             /\ outcome.value = ParsedAs(suffix, path.text).value

(* C25 as stated: load_schema raises the file-not-found error when there  *)
(* is no file at the path, whatever its suffix; else the unsupported-      *)
(* format error when the suffix is not .yaml, .yml or .json; else a parse  *)
(* error naming the path and the parser's failure when the content is      *)
(* malformed; else it returns what the YAML-safe parser (.yaml, .yml) or   *)
(* the JSON parser (.json) makes of the content.                           *)
C25_LoadSchemaBySuffix ==
    stage = "loaded" => LoadedAsStated(Suffix(file.path.name))

(* C25 as amended: the same, the suffix being compared without regard to  *)
(* case (.YAML and .Json are loaded as .yaml and .json).                   *)
C25_LoadSchemaBySuffixAnyCase ==
    stage = "loaded" => LoadedAsStated(Lower(Suffix(file.path.name)))

C25_Witness ==
    /\ stage = "loaded"
    /\ file.path.kind = "file"
    /\ file.path.name = <<"s">> \o x_json
    /\ file.path.text = t_block_map
    /\ file.outcome.raised = "ValueError"
    /\ file.outcome.message.cause = "JSONDecodeError"

---------------------------------------------------------------------------
(* HTTP errors and headers                                                 *)

(* the call, of a generated method or of a helper, reached a helper *)
HelperReached == stage = "called" /\ call.outcome.helper # NoHelperCall

(* C26: when a generated method's request is answered with a status of    *)
(* 400 or more, the method raises HTTPStatusError and returns nothing;     *)
(* whatever the helper raises the method raises, and it returns a response *)
(* only when nothing was raised.                                           *)
C26_HttpErrorPropagates ==
    (HelperReached /\ "method" \in DOMAIN call) =>
        LET outcome == call.outcome
        IN  /\ (outcome.request # NoRequest /\ env.status >= 400) =>
                    /\ outcome.raised = "HTTPStatusError"
                    /\ outcome.returned = NoResponse
            /\ outcome.raised = outcome.helper.raised
            /\ outcome.returned # NoResponse =>
                    /\ outcome.raised = ""
                    /\ outcome.returned.status_code = env.status
                    /\ env.status < 400

C26_Witness ==
    /\ HelperReached
    /\ "method" \in DOMAIN call
    /\ env.status = 404
    /\ call.outcome.request # NoRequest
    /\ call.outcome.raised = "HTTPStatusError"

(* C30: a helper calls _get_headers exactly when it is passed no headers  *)
(* or an empty map; passed a non-empty map, it sends the request with that *)
(* map alone, whatever _get_headers would return or raise; otherwise it    *)
(* sends the headers _get_headers returns.                                 *)
C30_HeadersArgumentReplacesCredentials ==
    HelperReached =>
        LET helper == call.outcome.helper
            passed == helper.headers_argument
        IN  /\ helper.get_headers_called <=> passed = EmptyDict
            /\ passed # EmptyDict =>
                    /\ helper.request # NoRequest
                    /\ helper.request.headers = passed
            /\ (passed = EmptyDict /\ env.get_headers.raised = "") =>
                    helper.request.headers = env.get_headers.headers
            /\ (passed = EmptyDict /\ env.get_headers.raised # "") =>
                    /\ helper.raised = env.get_headers.raised
                    /\ helper.request = NoRequest

C30_Witness ==
    /\ HelperReached
    /\ "method" \in DOMAIN call
    /\ env.get_headers.headers = CredentialHeaders
    /\ call.outcome.helper.headers_argument # EmptyDict
    /\ call.outcome.request.headers = call.outcome.helper.headers_argument
    /\ s_authorization \notin DOMAIN call.outcome.request.headers

====
